---- MODULE Spec2Model ----
(***************************************************************************)
(* Model of src/util/actor.js: two Actor instances, "A" (main-thread side) *)
(* and "B" (worker side), joined by an order-preserving transport.  Each   *)
(* Actor posts to the other's inbox; process() runs as a separate step     *)
(* whenever a setTimeout(this.process, 0) callback is outstanding.         *)
(***************************************************************************)
EXTENDS Integers, Sequences, FiniteSets, TLC

\* ---------------------------------------------------------------- bounds
\* How many send calls are made in all (so Actor.taskId never exceeds it).
MaxSends == 2
\* How many times one cancel handle may be invoked.
MaxCancel == 2
\* How many times one asynchronous handler may call done.
MaxDone == 1

\* ------------------------------------------------------------- constants
Actors == {"A", "B"}
Ids == 1..MaxSends
Other(a) == IF a = "A" THEN "B" ELSE "A"

\* Falsy values of JavaScript: an absent id / mapId, an absent table entry.
NoId == 0
NoMapId == 0
NoTask == [id |-> NoId]

\* The mapId each Actor was constructed with (B, the worker side, has none).
MapIdOf(a) == IF a = "A" THEN 1 ELSE NoMapId

CancelType == "<cancel>"
ResponseType == "<response>"
\* Handler selectors used by send.
Types == {"echo", "slow", "ws.slow"}
\* The payload given to send.
Payloads == {"v42"}
\* Error values an asynchronous handler may pass to done ("null": no error).
NullErr == "null"
HandlerErrs == {NullErr, "boom"}

\* ------------------------------------------------------------ the codec
\* serialize / deserialize of web_worker_transfer: a wire value wraps the
\* application value; null (no error) is the empty wire value.
NullWire == <<>>
Serialize(v) == <<"ser", v>>
Deserialize(w) == w[2]
Undefined == "undefined"

\* ------------------------------------------------------- the peer objects
\* this.parent: the methods it exposes directly, whether it has
\* getWorkerSource, and the methods of the worker source it resolves.
DirectMethods(a) == IF a = "A" THEN {"echo", "slow"} ELSE {"echo"}
HasGetWorkerSource(a) == a = "B"
\* task.type.split('.')
Split(t) == IF t = "ws.slow" THEN <<"ws", "slow">> ELSE <<t>>
ScopeMethods(scope) == IF scope = "ws" THEN {"slow"} ELSE {}
\* new Error(`Could not find function ${task.type}`)
NotFoundError(t) ==
    CASE t = "echo" -> "Could not find function echo"
      [] t = "slow" -> "Could not find function slow"
      [] t = "ws.slow" -> "Could not find function ws.slow"

\* What the handler named m does when invoked: "sync" calls done(null, params)
\* before returning a cancelable handle; "async" returns a cancelable handle
\* and calls done later (or never).
HandlerKind(m) == IF m = "echo" THEN "sync" ELSE "async"

VARIABLES
    shared,          \* TRUE: both Actors live in one context (one Actor.taskId)
    taskId,          \* Actor.taskId of each context
    callbacks,       \* this.callbacks: id -> callback (NoId: no entry)
    tasks,           \* this.tasks: id -> envelope (NoTask: no entry)
    taskQueue,       \* this.taskQueue
    taskTimeout,     \* this.taskTimeout is non-null
    cancelCallbacks, \* this.cancelCallbacks: id -> hook (NoId: no entry)
    timers,          \* outstanding setTimeout(this.process, 0) callbacks
    inbox,           \* envelopes posted to an Actor and not yet received
    handles,         \* the cancel handles returned by send, per id
    running,         \* done closures held by asynchronous handlers, per id
    arrivals,        \* per taskQueue slot: the envelope that receive queued there
    invoked,         \* how often the handler of an inbound request id ran
    doneLog,         \* the arguments of every done call, per inbound request id
    called,          \* the arguments of every callback invocation, per callback
    hooked,          \* how often the cancel hook of an inbound request id ran
    threw,           \* how many process calls ended in an exception
    midflight,       \* a cancel handle was invoked while the remote hook was registered
    listening,       \* this.receive is still a 'message' listener of this.target
    extras           \* envelopes posted by other users of the transport, repeated done calls

actorVars == <<callbacks, tasks, taskQueue, taskTimeout, cancelCallbacks, timers>>
peerVars == <<handles, running>>
obsVars == <<arrivals, invoked, doneLog, called, hooked, threw, midflight>>
envVars == <<listening, extras>>
vars == <<shared, taskId, actorVars, inbox, peerVars, obsVars, envVars>>

\* Mutant of CtxOf: taskId as a field of each instance instead of a static.
CtxOfPerInstance(a) == a

\* The context (and so the static counter) an Actor allocates ids from.
CtxOf(a) == IF shared THEN "A" ELSE a

NoHandle == [live |-> FALSE, hasCallback |-> FALSE, targetMapId |-> NoMapId, n |-> 0]
NoDone == [active |-> FALSE, hasCallback |-> FALSE, params |-> Undefined]

Init ==
    /\ shared \in BOOLEAN
    /\ taskId = [c \in Actors |-> 0]
    /\ callbacks = [a \in Actors |-> [i \in Ids |-> NoId]]
    /\ tasks = [a \in Actors |-> [i \in Ids |-> NoTask]]
    /\ taskQueue = [a \in Actors |-> <<>>]
    /\ taskTimeout = [a \in Actors |-> FALSE]
    /\ cancelCallbacks = [a \in Actors |-> [i \in Ids |-> NoId]]
    /\ timers = [a \in Actors |-> 0]
    /\ inbox = [a \in Actors |-> <<>>]
    /\ handles = [a \in Actors |-> [i \in Ids |-> NoHandle]]
    /\ running = [a \in Actors |-> [i \in Ids |-> NoDone]]
    /\ arrivals = [a \in Actors |-> <<>>]
    /\ invoked = [a \in Actors |-> [i \in Ids |-> 0]]
    /\ doneLog = [a \in Actors |-> [i \in Ids |-> <<>>]]
    /\ called = [a \in Actors |-> [i \in Ids |-> <<>>]]
    /\ hooked = [a \in Actors |-> [i \in Ids |-> 0]]
    /\ threw = [a \in Actors |-> 0]
    /\ midflight = [a \in Actors |-> [i \in Ids |-> FALSE]]
    /\ listening = [a \in Actors |-> TRUE]
    /\ extras = 0

\* Another send call, foreign envelope or repeated done call is still allowed.
Budget == taskId["A"] + taskId["B"] + extras < MaxSends

\* The envelope send posts (actor.js 60-67).
Request(a, id, type, hasCb, target, data) ==
    [id |-> id, type |-> type, hasCallback |-> hasCb, targetMapId |-> target,
     sourceMapId |-> MapIdOf(a), data |-> Serialize(data), error |-> NullWire]

\* The envelope the cancel handle posts (actor.js 74-79).
CancelEnvelope(a, id, target) ==
    [id |-> id, type |-> CancelType, hasCallback |-> FALSE, targetMapId |-> target,
     sourceMapId |-> MapIdOf(a), data |-> NullWire, error |-> NullWire]

\* The envelope done posts (actor.js 159-165).
Response(a, id, err, data) ==
    [id |-> id, type |-> ResponseType, hasCallback |-> FALSE, targetMapId |-> NoMapId,
     sourceMapId |-> MapIdOf(a),
     error |-> IF err # NullErr THEN Serialize(err) ELSE NullWire,
     data |-> Serialize(data)]

\* this.target.postMessage(env): the envelope joins the other Actor's inbox.
PostMessage(a, env) == [inbox EXCEPT ![Other(a)] = Append(@, env)]

\* send(type, data, callback, targetMapId), actor.js 54-82.  The callback
\* supplied with the request that gets id i is callback i.
Send(a, type, hasCb, data) ==
    LET id == taskId[CtxOf(a)] + 1
        target == MapIdOf(Other(a)) IN
    /\ Budget
    /\ taskId' = [taskId EXCEPT ![CtxOf(a)] = id]
    /\ callbacks' = IF hasCb THEN [callbacks EXCEPT ![a][id] = id] ELSE callbacks
    /\ inbox' = PostMessage(a, Request(a, id, type, hasCb, target, data))
    /\ handles' = [handles EXCEPT ![a][id] =
                     [live |-> TRUE, hasCallback |-> hasCb, targetMapId |-> target, n |-> 0]]
    /\ UNCHANGED <<shared, tasks, taskQueue, taskTimeout, cancelCallbacks, timers,
                   running, obsVars, envVars>>

\* Mutant of Cancel: the handle posts <cancel> but leaves this.callbacks alone.
CancelKeepsCallback(a, id) ==
    LET h == handles[a][id] IN
    /\ h.live
    /\ h.n < MaxCancel
    /\ inbox' = PostMessage(a, CancelEnvelope(a, id, h.targetMapId))
    /\ handles' = [handles EXCEPT ![a][id].n = @ + 1]
    /\ midflight' = [midflight EXCEPT ![a][id] =
           @ \/ (cancelCallbacks[Other(a)][id] # NoId /\ doneLog[Other(a)][id] = <<>>)]
    /\ UNCHANGED <<shared, taskId, callbacks, tasks, taskQueue, taskTimeout,
                   cancelCallbacks, timers, running, arrivals, invoked, doneLog, called,
                   hooked, threw, envVars>>

\* The cancel handle returned by send, actor.js 69-80.
Cancel(a, id) ==
    LET h == handles[a][id] IN
    /\ h.live
    /\ h.n < MaxCancel
    /\ callbacks' = IF h.hasCallback THEN [callbacks EXCEPT ![a][id] = NoId] ELSE callbacks
    /\ inbox' = PostMessage(a, CancelEnvelope(a, id, h.targetMapId))
    /\ handles' = [handles EXCEPT ![a][id].n = @ + 1]
    /\ midflight' = [midflight EXCEPT ![a][id] =
           @ \/ (cancelCallbacks[Other(a)][id] # NoId /\ doneLog[Other(a)][id] = <<>>)]
    /\ UNCHANGED <<shared, taskId, tasks, taskQueue, taskTimeout, cancelCallbacks, timers,
                   running, arrivals, invoked, doneLog, called, hooked, threw, envVars>>

\* What receive did to the queue slot of an envelope: queued, and canceled once
\* a <cancel> envelope with its id is received while it waits.
Slot(env) == [env |-> env, canceled |-> FALSE]
MarkCanceled(slots, id) ==
    [k \in 1..Len(slots) |->
        IF slots[k].env.id = id THEN [slots[k] EXCEPT !.canceled = TRUE] ELSE slots[k]]

\* Mutant of ReceiveCancel: the hook is invoked but stays in the table.
ReceiveCancelKeepsHook(a, id) ==
    LET cancel == cancelCallbacks[a][id] IN
    /\ tasks' = [tasks EXCEPT ![a][id] = NoTask]
    /\ hooked' = IF cancel # NoId THEN [hooked EXCEPT ![a][cancel] = @ + 1] ELSE hooked
    /\ arrivals' = [arrivals EXCEPT ![a] = MarkCanceled(@, id)]
    /\ UNCHANGED <<callbacks, taskQueue, taskTimeout, cancelCallbacks, timers,
                   invoked, doneLog, called, threw, midflight>>

\* The <cancel> branch of receive, actor.js 96-105.
ReceiveCancel(a, id) ==
    LET cancel == cancelCallbacks[a][id] IN
    /\ tasks' = [tasks EXCEPT ![a][id] = NoTask]
    /\ cancelCallbacks' = [cancelCallbacks EXCEPT ![a][id] = NoId]
    /\ hooked' = IF cancel # NoId THEN [hooked EXCEPT ![a][cancel] = @ + 1] ELSE hooked
    /\ arrivals' = [arrivals EXCEPT ![a] = MarkCanceled(@, id)]
    /\ UNCHANGED <<callbacks, taskQueue, taskTimeout, timers,
                   invoked, doneLog, called, threw, midflight>>

\* Mutant of Enqueue: every accepted envelope schedules a process call.
EnqueueAlwaysSchedules(a, data) ==
    /\ tasks' = [tasks EXCEPT ![a][data.id] = data]
    /\ taskQueue' = [taskQueue EXCEPT ![a] = Append(@, data.id)]
    /\ arrivals' = [arrivals EXCEPT ![a] = Append(@, Slot(data))]
    /\ taskTimeout' = [taskTimeout EXCEPT ![a] = TRUE]
    /\ timers' = [timers EXCEPT ![a] = @ + 1]
    /\ UNCHANGED <<callbacks, cancelCallbacks, invoked, doneLog, called, hooked, threw,
                   midflight>>

\* Mutant of Enqueue: the test of this.taskTimeout is inverted.
EnqueueInvertedTest(a, data) ==
    /\ tasks' = [tasks EXCEPT ![a][data.id] = data]
    /\ taskQueue' = [taskQueue EXCEPT ![a] = Append(@, data.id)]
    /\ arrivals' = [arrivals EXCEPT ![a] = Append(@, Slot(data))]
    /\ IF taskTimeout[a]
       THEN /\ taskTimeout' = [taskTimeout EXCEPT ![a] = TRUE]
            /\ timers' = [timers EXCEPT ![a] = @ + 1]
       ELSE UNCHANGED <<taskTimeout, timers>>
    /\ UNCHANGED <<callbacks, cancelCallbacks, invoked, doneLog, called, hooked, threw,
                   midflight>>

\* The other branch of receive, actor.js 106-117.
Enqueue(a, data) ==
    /\ tasks' = [tasks EXCEPT ![a][data.id] = data]
    /\ taskQueue' = [taskQueue EXCEPT ![a] = Append(@, data.id)]
    /\ arrivals' = [arrivals EXCEPT ![a] = Append(@, Slot(data))]
    /\ IF ~taskTimeout[a]
       THEN /\ taskTimeout' = [taskTimeout EXCEPT ![a] = TRUE]
            /\ timers' = [timers EXCEPT ![a] = @ + 1]
       ELSE UNCHANGED <<taskTimeout, timers>>
    /\ UNCHANGED <<callbacks, cancelCallbacks, invoked, doneLog, called, hooked, threw,
                   midflight>>

\* Mutant of Routable: receive checks the id but ignores targetMapId.
RoutableIgnoresTarget(a, data) == data.id # NoId

\* The envelope passes the two early returns of receive, actor.js 88-94.
Routable(a, data) ==
    /\ data.id # NoId
    /\ ~(data.targetMapId # NoMapId /\ MapIdOf(a) # data.targetMapId)

\* receive(message), actor.js 84-118, for the envelope at the head of the inbox;
\* the transport calls it only while it is a listener (actor.js 43, 193).
Receive(a) ==
    /\ listening[a]
    /\ inbox[a] # <<>>
    /\ LET data == Head(inbox[a])
           id == data.id IN
       /\ inbox' = [inbox EXCEPT ![a] = Tail(@)]
       /\ IF ~Routable(a, data)
          THEN UNCHANGED <<actorVars, obsVars>>
          ELSE IF data.type = CancelType
          THEN ReceiveCancel(a, id)
          ELSE Enqueue(a, data)
    /\ UNCHANGED <<shared, taskId, peerVars, envVars>>

\* How process finds the function for task.type (actor.js 172-183): "call" a
\* method, "notfound" (the else branch), or "throw" (scope[keys[1]] is not a
\* function).
Resolve(a, type) ==
    IF type \in DirectMethods(a)
    THEN [kind |-> "call", method |-> type]
    ELSE IF HasGetWorkerSource(a)
    THEN LET keys == Split(type) IN
         IF Len(keys) >= 2 /\ keys[2] \in ScopeMethods(keys[1])
         THEN [kind |-> "call", method |-> keys[2]]
         ELSE [kind |-> "throw", method |-> type]
    ELSE [kind |-> "notfound", method |-> type]

\* Mutant of DonePosts: the closure posts a response whatever task.hasCallback is.
DoneAlwaysResponds(a, id, hasCb, err, data) ==
    /\ doneLog' = [doneLog EXCEPT ![a][id] = Append(@, <<err, data>>)]
    /\ inbox' = PostMessage(a, Response(a, id, err, data))

\* What the done closure of process (actor.js 155-168) posts when called with
\* (err, data): a response with task.hasCallback, nothing without.
DonePosts(a, id, hasCb, err, data) ==
    /\ doneLog' = [doneLog EXCEPT ![a][id] = Append(@, <<err, data>>)]
    /\ inbox' = IF hasCb THEN PostMessage(a, Response(a, id, err, data)) ELSE inbox

\* The cancel-callback table after the done closure ran (actor.js 157): with
\* task.hasCallback the entry of the id is deleted.
DoneHooks(a, id, hasCb) ==
    IF hasCb THEN [cancelCallbacks EXCEPT ![a][id] = NoId] ELSE cancelCallbacks

\* The done closure called after process has returned.
Done(a, id, hasCb, err, data) ==
    /\ DonePosts(a, id, hasCb, err, data)
    /\ cancelCallbacks' = DoneHooks(a, id, hasCb)

\* actor.js 185-188: the handle the handler returned is registered unless done
\* already ran or there is no handle with a cancel function (NoId).
RegisterHook(hooks, a, id, completed, handle) ==
    IF ~completed /\ handle # NoId THEN [hooks EXCEPT ![a][id] = handle] ELSE hooks

\* Mutant of DispatchResponse: the callback is invoked but stays in the table.
DispatchResponseKeepsCallback(a, id, task) ==
    LET callback == callbacks[a][id] IN
    /\ called' = IF callback = NoId THEN called
                 ELSE IF task.error # NullWire
                 THEN [called EXCEPT ![a][callback] = Append(@, <<Deserialize(task.error)>>)]
                 ELSE [called EXCEPT ![a][callback] =
                          Append(@, <<NullErr, Deserialize(task.data)>>)]
    /\ UNCHANGED <<callbacks, cancelCallbacks, inbox, running, invoked, doneLog, threw>>

\* The response branch of process (actor.js 140-152).
DispatchResponse(a, id, task) ==
    LET callback == callbacks[a][id] IN
    /\ callbacks' = [callbacks EXCEPT ![a][id] = NoId]
    /\ called' = IF callback = NoId THEN called
                 ELSE IF task.error # NullWire
                 THEN [called EXCEPT ![a][callback] = Append(@, <<Deserialize(task.error)>>)]
                 ELSE [called EXCEPT ![a][callback] =
                          Append(@, <<NullErr, Deserialize(task.data)>>)]
    /\ UNCHANGED <<cancelCallbacks, inbox, running, invoked, doneLog, threw>>

\* The request branch of process (actor.js 154-188).
DispatchRequest(a, id, task) ==
    LET params == Deserialize(task.data)
        r == Resolve(a, task.type) IN
    /\ UNCHANGED <<callbacks, called>>
    /\ CASE r.kind = "throw" ->
              /\ threw' = [threw EXCEPT ![a] = @ + 1]
              /\ UNCHANGED <<cancelCallbacks, inbox, running, invoked, doneLog>>
         [] r.kind = "notfound" ->
              \* done(new Error(...)) runs at once; callback stays null.
              /\ DonePosts(a, id, task.hasCallback, NotFoundError(task.type), Undefined)
              /\ cancelCallbacks' =
                    RegisterHook(DoneHooks(a, id, task.hasCallback), a, id, TRUE, NoId)
              /\ UNCHANGED <<running, invoked, threw>>
         [] r.kind = "call" /\ HandlerKind(r.method) = "sync" ->
              \* done(null, params) runs inside the handler, which then returns
              \* a cancelable handle.
              /\ invoked' = [invoked EXCEPT ![a][id] = @ + 1]
              /\ DonePosts(a, id, task.hasCallback, NullErr, params)
              /\ cancelCallbacks' =
                    RegisterHook(DoneHooks(a, id, task.hasCallback), a, id, TRUE, id)
              /\ UNCHANGED <<running, threw>>
         [] r.kind = "call" /\ HandlerKind(r.method) = "async" ->
              \* the handler returns a cancelable handle and keeps done.
              /\ invoked' = [invoked EXCEPT ![a][id] = @ + 1]
              /\ running' = [running EXCEPT ![a][id] =
                    [active |-> TRUE, hasCallback |-> task.hasCallback, params |-> params]]
              /\ cancelCallbacks' = RegisterHook(cancelCallbacks, a, id, FALSE, id)
              /\ UNCHANGED <<inbox, doneLog, threw>>

\* process(), actor.js 120-190: one run of an outstanding timer callback.
Process(a) ==
    /\ timers[a] > 0
    /\ UNCHANGED <<shared, taskId, handles, hooked, midflight, envVars>>
    /\ IF taskQueue[a] = <<>>
       THEN /\ taskTimeout' = [taskTimeout EXCEPT ![a] = FALSE]
            /\ timers' = [timers EXCEPT ![a] = @ - 1]
            /\ UNCHANGED <<callbacks, tasks, taskQueue, cancelCallbacks, inbox, running,
                           obsVars>>
       ELSE LET id == Head(taskQueue[a])
                task == tasks[a][id]
                more == Tail(taskQueue[a]) # <<>> IN
            /\ taskQueue' = [taskQueue EXCEPT ![a] = Tail(@)]
            /\ arrivals' = [arrivals EXCEPT ![a] = Tail(@)]
            /\ tasks' = [tasks EXCEPT ![a][id] = NoTask]
            /\ taskTimeout' = [taskTimeout EXCEPT ![a] = more]
            /\ timers' = [timers EXCEPT ![a] = IF more THEN @ ELSE @ - 1]
            /\ IF task = NoTask
               THEN UNCHANGED <<callbacks, cancelCallbacks, inbox, running,
                                invoked, doneLog, called, threw>>
               ELSE IF task.type = ResponseType
               THEN DispatchResponse(a, id, task)
               ELSE DispatchRequest(a, id, task)

\* An asynchronous handler calls the done it was given, with an error or with
\* its params as the value.
HandlerDone(a, id, err) ==
    LET h == running[a][id] IN
    /\ h.active
    /\ Len(doneLog[a][id]) < MaxDone
    /\ Done(a, id, h.hasCallback, err, IF err = NullErr THEN h.params ELSE Undefined)
    /\ UNCHANGED <<shared, taskId, callbacks, tasks, taskQueue, taskTimeout, timers,
                   handles, running, arrivals, invoked, called, hooked, threw, midflight,
                   envVars>>

Next ==
    \/ \E a \in Actors, t \in Types, cb \in BOOLEAN, d \in Payloads : Send(a, t, cb, d)
    \/ \E a \in Actors, i \in Ids : Cancel(a, i)
    \/ \E a \in Actors : Receive(a)
    \/ \E a \in Actors : Process(a)
    \/ \E a \in Actors, i \in Ids, e \in HandlerErrs : HandlerDone(a, i, e)

Spec == Init /\ [][Next]_vars

\* ------------------------------------------------- teardown and strangers
\* remove(), actor.js 192-194: receive stops being a listener; nothing else
\* of the Actor is touched (a scheduled process call stays scheduled).
Remove(a) ==
    /\ listening[a]
    /\ listening' = [listening EXCEPT ![a] = FALSE]
    /\ UNCHANGED <<shared, taskId, actorVars, inbox, peerVars, obsVars, extras>>

\* A mapId that is set and is not the one Actor a was constructed with.
OtherMapId(a) == MapIdOf(a) + 1

\* An envelope as another user of the transport posts it.
ForeignEnvelope(i, t, m) ==
    [id |-> i, type |-> t, hasCallback |-> TRUE, targetMapId |-> m,
     sourceMapId |-> NoMapId, data |-> Serialize("v42"), error |-> NullWire]

\* Envelopes that are not for Actor a: without an id, or addressed to another
\* mapId; requests, responses and cancel notices alike.
Unroutable(a) ==
    {ForeignEnvelope(NoId, t, m) :
        t \in {"echo", ResponseType, CancelType}, m \in {NoMapId, OtherMapId(a)}}
    \cup {ForeignEnvelope(i, t, OtherMapId(a)) :
        i \in Ids, t \in {"echo", ResponseType, CancelType}}

\* Another user of the same transport posts an envelope that Actor a's
\* listener sees although it is not meant for it.
Foreign(a, env) ==
    /\ Budget
    /\ extras' = extras + 1
    /\ inbox' = [inbox EXCEPT ![a] = Append(@, env)]
    /\ UNCHANGED <<shared, taskId, actorVars, peerVars, obsVars, listening>>

\* A handler calls the done it was given once more after it has completed.
HandlerDoneAgain(a, id, err) ==
    LET h == running[a][id] IN
    /\ h.active
    /\ doneLog[a][id] # <<>>
    /\ Budget
    /\ extras' = extras + 1
    /\ Done(a, id, h.hasCallback, err, IF err = NullErr THEN h.params ELSE Undefined)
    /\ UNCHANGED <<shared, taskId, callbacks, tasks, taskQueue, taskTimeout, timers,
                   handles, running, arrivals, invoked, called, hooked, threw, midflight,
                   listening>>

NextEnv ==
    \/ Next
    \/ \E a \in Actors : Remove(a)
    \/ \E a \in Actors : \E env \in Unroutable(a) : Foreign(a, env)
    \/ \E a \in Actors, i \in Ids, e \in HandlerErrs : HandlerDoneAgain(a, i, e)

\* The Actors with teardown, foreign envelopes and repeated done calls.
SpecEnv == Init /\ [][NextEnv]_vars

\* ------------------------------------------------------------ vocabulary
\* Two Actors allocate from the same static counter.
SameContext(a, b) == a = b \/ shared

\* This step is a receive call of Actor b (only receive shortens an inbox).
ReceiveStep(b) == inbox[b] # <<>> /\ inbox'[b] = Tail(inbox[b])

\* This step is a process call of Actor a that pops an id (only process
\* shortens the order list).
ProcessStep(a) == taskQueue[a] # <<>> /\ taskQueue'[a] = Tail(taskQueue[a])

\* The envelope at the head of b's inbox is a <cancel> for id x.
CancelAtHead(b, x) ==
    inbox[b] # <<>> /\ Head(inbox[b]).type = CancelType /\ Head(inbox[b]).id = x

\* How many <cancel> envelopes for id x wait in b's inbox.
CancelsInFlight(b, x) ==
    Cardinality({k \in 1..Len(inbox[b]) :
                    inbox[b][k].type = CancelType /\ inbox[b][k].id = x})

\* Nothing is dispatched by Actor a and nothing is posted in this step.
DispatchesNothing(a) ==
    /\ invoked'[a] = invoked[a]
    /\ called'[a] = called[a]
    /\ doneLog'[a] = doneLog[a]
    /\ threw'[a] = threw[a]
    /\ inbox'[Other(a)] = inbox[Other(a)]

\* What a callback must be invoked with after done(err, value).
Outcome(d) == IF d[1] # NullErr THEN <<d[1]>> ELSE <<NullErr, d[2]>>

\* Nothing is in flight or queued anywhere.
Quiescent == \A a \in Actors : inbox[a] = <<>> /\ taskQueue[a] = <<>>

\* -------------------------------------------------------------------- C1
\* C1: every id a send call allocates is positive and strictly greater than
\* every id allocated before it by any Actor of the same context, so no two
\* send calls of one context get the same id.
C1_IdsIncrease ==
    [][\A a \in Actors, i \in Ids :
          (handles'[a][i].live /\ ~handles[a][i].live) =>
              /\ i > 0
              /\ \A b \in Actors, j \in Ids :
                    (SameContext(a, b) /\ handles[b][j].live) => j < i]_vars

\* Two Actors of one context have each allocated an id.
C1_Witness == shared /\ handles["A"][1].live /\ handles["B"][2].live

\* -------------------------------------------------------------------- C2
\* C2: (different contexts) once nothing is in flight or queued any more, every
\* request sent with a callback, never canceled, whose remote handler invoked
\* done(err, value) has had its callback invoked exactly once, with (err) if
\* err is set and otherwise with (null, value).
C2_RoundTrip ==
    (~shared /\ Quiescent) =>
        \A a \in Actors, i \in Ids :
            (/\ handles[a][i].live
             /\ handles[a][i].hasCallback
             /\ handles[a][i].n = 0
             /\ doneLog[Other(a)][i] # <<>>)
            => called[a][i] = <<Outcome(doneLog[Other(a)][i][1])>>

\* -------------------------------------------------------------------- C3
\* C3: once the cancel handle of a request has been invoked, the callback of
\* that request is never invoked afterwards.
C3_NoCallbackAfterCancel ==
    [][\A a \in Actors, i \in Ids :
          handles[a][i].n > 0 => called'[a][i] = called[a][i]]_vars

\* A canceled request with a callback whose response is queued at the sender.
C3_Witness ==
    \E a \in Actors, i \in Ids :
        /\ handles[a][i].hasCallback
        /\ handles[a][i].n > 0
        /\ tasks[a][i] # NoTask
        /\ tasks[a][i].type = ResponseType
        /\ called[a][i] = <<>>

\* -------------------------------------------------------------------- C4
\* C4: a drain step that pops the id of a request envelope for which a <cancel>
\* was received while it was queued dispatches nothing (no handler, no
\* callback, no done, no exception, no envelope posted).
C4_CancelBeforeDispatch ==
    [][\A a \in Actors :
          (/\ ProcessStep(a)
           /\ Head(arrivals[a]).canceled
           /\ Head(arrivals[a]).env.type # ResponseType)
          => DispatchesNothing(a)]_vars

\* -------------------------------------------------------------------- C5
\* C5: the drain step that pops the queue slot of a non-canceled envelope
\* dispatches exactly that envelope, so dispatch order equals arrival order.
C5_FifoDispatch ==
    \A a \in Actors :
        (taskQueue[a] # <<>> /\ ~Head(arrivals[a]).canceled)
        => tasks[a][Head(taskQueue[a])] = Head(arrivals[a]).env

\* -------------------------------------------------------------------- C6
\* C6: no <response> envelope is ever posted for a request that was sent
\* without a callback.
C6_FireAndForget ==
    \A a \in Actors : \A k \in 1..Len(inbox[a]) :
        inbox[a][k].type = ResponseType => handles[a][inbox[a][k].id].hasCallback

\* A request sent without a callback whose handler has called done.
C6_Witness ==
    \E a \in Actors, i \in Ids :
        /\ handles[a][i].live
        /\ ~handles[a][i].hasCallback
        /\ doneLog[Other(a)][i] # <<>>

\* -------------------------------------------------------------------- C7
\* The peer of Actor a has no direct method named t and no method for t on a
\* resolved sub-scope.
NoHandler(a, t) ==
    /\ t \notin DirectMethods(a)
    /\ \/ Len(Split(t)) < 2
       \/ Split(t)[2] \notin ScopeMethods(Split(t)[1])

\* C7: a drain step that dispatches a request with a callback whose type
\* matches no handler does not throw and posts a <response> envelope whose
\* error names the missing type.
C7_UnknownType ==
    [][\A a \in Actors :
          (/\ ProcessStep(a)
           /\ tasks[a][Head(taskQueue[a])] # NoTask
           /\ tasks[a][Head(taskQueue[a])].type # ResponseType
           /\ tasks[a][Head(taskQueue[a])].hasCallback
           /\ NoHandler(a, tasks[a][Head(taskQueue[a])].type))
          => /\ threw'[a] = threw[a]
             /\ inbox'[Other(a)] = Append(inbox[Other(a)],
                   Response(a, Head(taskQueue[a]),
                            NotFoundError(tasks[a][Head(taskQueue[a])].type), Undefined))]_vars

\* -------------------------------------------------------------------- C8
\* C8 as stated: if the cancel handle was invoked while the remote hook was
\* registered and the handler had not called done, then once every <cancel>
\* envelope for the id has been received the hook has been invoked (once) and
\* is out of the cancel-callback table.
C8_HookAfterCancelInvoked ==
    \A a \in Actors, i \in Ids :
        (midflight[a][i] /\ CancelsInFlight(Other(a), i) = 0)
        => (hooked[Other(a)][i] = 1 /\ cancelCallbacks[Other(a)][i] = NoId)

\* C8 amended: if an Actor receives the <cancel> envelope for a request whose
\* handler was dispatched and has not called done, then when receive returns
\* the hook has been invoked exactly once and is out of the cancel-callback
\* table; and once the cancel handle was invoked the sender's callback is
\* never invoked, also when the handler calls done afterwards.
C8_HookAfterCancelReceived ==
    [][/\ \A b \in Actors, i \in Ids :
             (/\ ReceiveStep(b)
              /\ CancelAtHead(b, i)
              /\ running[b][i].active
              /\ doneLog[b][i] = <<>>)
             => (hooked'[b][i] = 1 /\ cancelCallbacks'[b][i] = NoId)
       /\ \A a \in Actors, i \in Ids :
             (midflight[a][i] /\ handles[a][i].hasCallback)
             => called'[a][i] = <<>>]_vars

\* The hook ran on a cancel, the handler called done afterwards, and the
\* response has been dropped at the sender without invoking the callback.
C8_Witness ==
    \E a \in Actors, i \in Ids :
        /\ midflight[a][i]
        /\ handles[a][i].hasCallback
        /\ hooked[Other(a)][i] = 1
        /\ doneLog[Other(a)][i] # <<>>
        /\ Quiescent
        /\ called[a][i] = <<>>

\* -------------------------------------------------------------------- C9
\* C9: receiving the <cancel> envelope of a repeated invocation of a cancel
\* handle (an earlier <cancel> for the id was already received) changes no
\* table of the receiving Actor and invokes no hook.
C9_CancelIdempotent ==
    [][\A b \in Actors, i \in Ids :
          (/\ ReceiveStep(b)
           /\ CancelAtHead(b, i)
           /\ CancelsInFlight(b, i) < handles[Other(b)][i].n)
          => /\ tasks'[b] = tasks[b]
             /\ taskQueue'[b] = taskQueue[b]
             /\ cancelCallbacks'[b] = cancelCallbacks[b]
             /\ callbacks'[b] = callbacks[b]
             /\ hooked'[b] = hooked[b]]_vars

\* ------------------------------------------------------------------- C10
\* C10: receiving the <cancel> envelope of a request whose callback has
\* already been invoked removes no queued task of the receiving Actor, changes
\* none of its tables and invokes no hook.
C10_CancelAfterResponse ==
    [][\A b \in Actors, i \in Ids :
          (/\ ReceiveStep(b)
           /\ CancelAtHead(b, i)
           /\ called[Other(b)][i] # <<>>)
          => /\ tasks'[b] = tasks[b]
             /\ taskQueue'[b] = taskQueue[b]
             /\ cancelCallbacks'[b] = cancelCallbacks[b]
             /\ callbacks'[b] = callbacks[b]
             /\ hooked'[b] = hooked[b]]_vars

\* ------------------------------------------------------------------- C11
\* C11: once remove() has been called on an Actor, no step delivers an
\* envelope to its receive, and no step makes it invoke a handler or a
\* response callback, even when a drain step was scheduled before remove().
C11_NothingAfterRemove ==
    [][\A a \in Actors :
          ~listening[a]
          => /\ ~ReceiveStep(a)
             /\ invoked'[a] = invoked[a]
             /\ called'[a] = called[a]]_vars

\* ------------------------------------------------------------------- C12
\* The envelope at the head of Actor a's inbox has no id, or names a mapId
\* that is set and is not a's.
UnroutableAtHead(a) ==
    /\ inbox[a] # <<>>
    /\ \/ Head(inbox[a]).id = NoId
       \/ /\ Head(inbox[a]).targetMapId # NoMapId
          /\ Head(inbox[a]).targetMapId # MapIdOf(a)

\* C12: receiving an envelope without an id, or with a targetMapId that is
\* set and differs from the Actor's mapId, leaves the task table, the order
\* list, both callback tables and the drain timer unchanged and invokes no
\* hook, whatever the type of the envelope.
C12_UnroutableDropped ==
    [][\A a \in Actors :
          (ReceiveStep(a) /\ UnroutableAtHead(a))
          => /\ tasks'[a] = tasks[a]
             /\ taskQueue'[a] = taskQueue[a]
             /\ callbacks'[a] = callbacks[a]
             /\ cancelCallbacks'[a] = cancelCallbacks[a]
             /\ taskTimeout'[a] = taskTimeout[a]
             /\ timers'[a] = timers[a]
             /\ hooked'[a] = hooked[a]]_vars

\* A foreign envelope was posted and received while a request was in
\* progress: its callback and its hook are still in their tables.
C12_Witness ==
    /\ extras = 1
    /\ \A a \in Actors : inbox[a] = <<>> /\ \A i \in Ids : Len(doneLog[a][i]) = 0
    /\ \E a \in Actors, i \in Ids :
          /\ callbacks[a][i] # NoId
          /\ cancelCallbacks[Other(a)][i] # NoId

\* ------------------------------------------------------------------- C13
\* C13: a drain step that dequeues a <response> whose id has no pending
\* callback invokes no callback and leaves the pending-callback table as it
\* is; one that finds the callback removes it and invokes it once; so no
\* callback is invoked a second time, however many responses carry its id.
C13_StaleResponse ==
    [][\A a \in Actors :
          (/\ ProcessStep(a)
           /\ tasks[a][Head(taskQueue[a])].id # NoId
           /\ tasks[a][Head(taskQueue[a])].type = ResponseType)
          => LET id == Head(taskQueue[a]) IN
             /\ callbacks'[a][id] = NoId
             /\ \A i \in Ids \ {id} : callbacks'[a][i] = callbacks[a][i]
             /\ \A i \in Ids \ {id} : called'[a][i] = called[a][i]
             /\ Len(called'[a][id]) =
                   IF callbacks[a][id] = NoId THEN Len(called[a][id]) ELSE 1]_vars

\* A handler called done twice for a request with a callback, both responses
\* were received and dequeued, and the callback was invoked once.
C13_Witness ==
    /\ Quiescent
    /\ \E a \in Actors, i \in Ids :
          /\ Len(doneLog[Other(a)][i]) = 2
          /\ running[Other(a)][i].hasCallback
          /\ Len(called[a][i]) = 1

\* ------------------------------------------------------------------- C14
\* C14: an Actor never has more than one scheduled process call that has
\* not run yet.
C14_OneDrainOutstanding == \A a \in Actors : timers[a] <= 1

\* Two envelopes were accepted before the drain step ran, and one timer is
\* outstanding.
C14_Witness == \E a \in Actors : Len(taskQueue[a]) >= 2 /\ timers[a] = 1

\* ------------------------------------------------------------------- C19
\* C19: between operations, the drain timer of an Actor is set exactly when
\* its order list is not empty, and exactly then a process call is
\* outstanding: no queued id is stranded and process never finds the list
\* empty.
C19_TimerIffQueued ==
    \A a \in Actors :
        /\ taskTimeout[a] <=> taskQueue[a] # <<>>
        /\ timers[a] > 0 <=> taskQueue[a] # <<>>

\* A dispatch has thrown while more ids were queued, and the timer is set.
C19_Witness ==
    \E a \in Actors : threw[a] > 0 /\ taskQueue[a] # <<>> /\ taskTimeout[a] /\ timers[a] = 1

\* ------------------------------------------------------------------- C20
\* C20: the cancel hook registered for an inbound request is invoked at most
\* once over the whole execution, however many <cancel> envelopes arrive.
C20_HookAtMostOnce == \A a \in Actors, i \in Ids : hooked[a][i] <= 1

\* The hook of a request ran, and a second <cancel> for the request has been
\* received since.
C20_Witness ==
    \E a \in Actors, i \in Ids :
        /\ hooked[a][i] = 1
        /\ handles[Other(a)][i].n = 2
        /\ CancelsInFlight(a, i) = 0

\* ------------------------------------------------------------------- C15
\* C15: whenever the id at the head of the order list has no entry in the
\* task table (the drain step that pops it dispatches nothing), a <cancel>
\* for that id was received after the envelope of that slot was enqueued.
C15_SkipOnlyIfCanceled ==
    \A a \in Actors :
        (taskQueue[a] # <<>> /\ tasks[a][Head(taskQueue[a])] = NoTask)
        => Head(arrivals[a]).canceled

\* ------------------------------------------------------------------- C16
\* C16: the task table and the cancel-callback table of an Actor never both
\* hold an entry for the same id.
C16_TaskOrHook ==
    \A a \in Actors, i \in Ids :
        ~(tasks[a][i] # NoTask /\ cancelCallbacks[a][i] # NoId)

\* ------------------------------------------------------------------- C17
\* C17: a hook is in the cancel-callback table only for a dispatched request
\* whose handler has not called done; once done was called for an id, with or
\* without hasCallback, the table holds no entry for it and a <cancel>
\* received afterwards invokes no hook.
C17_NoHookAfterDone ==
    [][\A a \in Actors, i \in Ids :
          /\ cancelCallbacks'[a][i] # NoId => invoked'[a][i] > 0 /\ doneLog'[a][i] = <<>>
          /\ doneLog[a][i] # <<>> => hooked'[a][i] = hooked[a][i]]_vars

\* ------------------------------------------------------------------- C18
\* A dispatch of Actor a has thrown, or a handler it dispatched has not
\* called done.
DispatchFailed(a) ==
    \/ threw[a] > 0
    \/ \E i \in Ids : running[a][i].active /\ doneLog[a][i] = <<>>

\* C18: a dispatch that throws leaves a process call scheduled whenever ids
\* remain in the order list, and after a dispatch that threw or whose handler
\* never called done, every drain step that pops the id of an envelope that
\* was not canceled still dispatches a task.
C18_DrainSurvivesFailure ==
    [][\A a \in Actors :
          /\ (ProcessStep(a) /\ threw'[a] > threw[a] /\ taskQueue'[a] # <<>>)
             => taskTimeout'[a] /\ timers'[a] > 0
          /\ (ProcessStep(a) /\ DispatchFailed(a) /\ ~Head(arrivals[a]).canceled)
             => tasks[a][Head(taskQueue[a])] # NoTask]_vars

\* The same Actors when every scheduled process call eventually runs.
FairSpec == Spec /\ \A a \in Actors : WF_vars(Process(a))

\* After a dispatch has thrown, the order list is eventually drained.
DrainContinues == \A a \in Actors : (threw[a] > 0) ~> (taskQueue[a] = <<>>)
====
